---- MODULE Spec2Model ----
(***************************************************************************)
(* Approval gate engine of the Jira approval panel                         *)
(* (src/Screenshots/backend.js: getIssueData, approveIssue,                *)
(* resetApprovalOnReady).  Every resolver is a sequence of awaited HTTP    *)
(* calls against Jira; each awaited call is one atomic step, and calls of  *)
(* different client sessions interleave freely between the steps.          *)
(***************************************************************************)
EXTENDS Integers, Sequences, FiniteSets, TLC

(* ---------------- program constants ---------------- *)

REQUIRED_STATUS == "Ready for Review"
TARGET_STATUS == "Approved"

(* ---------------- bounds of the model ---------------- *)

\* number of resolver invocations started in one behaviour
MaxOps == 2

\* number of calls of the estimation resolvers in one behaviour
MaxPokerOps == 3

\* number of events that reach a controller from outside in one behaviour
MaxCtlEvents == 4

\* number of ticks of the clock in one behaviour
MaxTicks == 6

Clients == {"c1", "c2"}
Actors == {"alice", "bob"}

\* the item, by key and by internal id
ISSUE_KEY == "SCRUM-1"
ISSUE_ID == "10001"

\* payloads of a resolver call: the item by key, the item by id, a key that
\* does not resolve, and a payload that carries neither
Payload(key, id) == [issueKey |-> key, issueId |-> id]
Payloads == {Payload(ISSUE_KEY, ""), Payload("", ISSUE_ID),
             Payload("SCRUM-404", ""), Payload("", "")}

\* payload.issueKey || payload.issueId
IdOrKey(payload) == IF payload.issueKey # "" THEN payload.issueKey ELSE payload.issueId

NULL == "null"
NOW_ISO == "2025-01-01T00:00:00.000Z"

StatusNames == {"Ready for Review", "Approved", "APPROVED", "In Progress"}

(* ---------------- pure helpers ---------------- *)

\* String.prototype.toLowerCase on the status vocabulary of the model
ToLowerCase(s) ==
  CASE s = "Ready for Review" -> "ready for review"
    [] s = "Approved" -> "approved"
    [] s = "APPROVED" -> "approved"
    [] s = "In Progress" -> "in progress"
    [] OTHER -> s

DisplayName(a) ==
  CASE a = "alice" -> "Alice A"
    [] a = "bob" -> "Bob B"
    [] OTHER -> a

Range(s) == {s[i] : i \in 1..Len(s)}

Includes(s, x) == \E i \in 1..Len(s) : s[i] = x

NoDuplicates(s) == \A i, j \in 1..Len(s) : s[i] = s[j] => i = j

\* a stored JSON value that is a list, and one that is not (null, missing)
ArrayValue(s) == [isArray |-> TRUE, value |-> s]
NotArray == [isArray |-> FALSE, value |-> <<>>]

\* an issue property: present with a JSON value, or absent (GET answers 404)
Property(v) == [exists |-> TRUE, json |-> v]
AbsentProperty == [exists |-> FALSE, json |-> NotArray]

\* Array.isArray(issue?.fields?.[APPROVER_CF]) ? issue.fields[APPROVER_CF] : []
ApproversOf(field) == IF field.isArray THEN field.value ELSE <<>>

\* getIssuePropertyOrEmpty: 404 is the empty list, and so is a value that is
\* not an array
GetIssuePropertyOrEmpty(prop) ==
  IF ~prop.exists THEN <<>>
  ELSE IF prop.json.isArray THEN prop.json.value ELSE <<>>

\* approvers.some(u => u?.accountId === me.accountId)
CurrentUserIsApprover(approvers, me) == Includes(approvers, me)

\* variant: the status guard is forgotten
CanApproveAnyStatus(statusName, approvers, me) ==
  /\ Len(approvers) > 0
  /\ CurrentUserIsApprover(approvers, me)

CanApprove(statusName, approvers, me) ==
  /\ statusName = REQUIRED_STATUS
  /\ Len(approvers) > 0
  /\ CurrentUserIsApprover(approvers, me)

\* the view model returned by getIssueData
Projection(statusName, approvers, votes, me, by, date) ==
  [statusName |-> statusName,
   approvers |-> approvers,
   approvedCount |-> Len(votes),
   totalApprovers |-> Len(approvers),
   hasVoted |-> Includes(votes, me),
   canApprove |-> CanApprove(statusName, approvers, me),
   approvalGivenBy |-> by,
   approvalDate |-> date]

(* ---------------- the workflow of the Provider ---------------- *)

Tr(id, from, to) == [id |-> id, from |-> from, to |-> to]

\* the usual workflow: approve, send back, re-open
WfStandard ==
  << Tr("11", "Ready for Review", "In Progress"),
     Tr("21", "Ready for Review", "Approved"),
     Tr("31", "Approved", "Ready for Review"),
     Tr("41", "In Progress", "Ready for Review") >>

\* a workflow without any transition into the target status
WfNoTarget ==
  << Tr("11", "Ready for Review", "In Progress"),
     Tr("12", "Ready for Review", ""),
     Tr("41", "In Progress", "Ready for Review") >>

\* a workflow whose target status is spelled in capitals
WfUpper ==
  << Tr("11", "Ready for Review", "In Progress"),
     Tr("22", "Ready for Review", "APPROVED"),
     Tr("32", "APPROVED", "Ready for Review"),
     Tr("41", "In Progress", "Ready for Review") >>

\* a workflow with no way out of the required status
WfEmpty == << Tr("41", "In Progress", "Ready for Review") >>

\* a workflow whose approve transition is global: offered from every status
WfGlobal ==
  << Tr("11", "Ready for Review", "In Progress"),
     Tr("51", "Ready for Review", "Approved"),
     Tr("51", "In Progress", "Approved"),
     Tr("51", "Approved", "Approved"),
     Tr("31", "Approved", "Ready for Review"),
     Tr("41", "In Progress", "Ready for Review") >>

Workflows == {WfStandard, WfNoTarget, WfUpper, WfEmpty, WfGlobal}

\* GET /issue/{id}/transitions: the transitions offered from the current status
TransitionsFrom(wf, st) == SelectSeq(wf, LAMBDA t : t.from = st)

\* variant: the names are not filtered
AvailableTargetsUnfiltered(transitions) ==
  [i \in 1..Len(transitions) |-> transitions[i].to]

\* transitions.map(t => t?.to?.name).filter(Boolean)
AvailableTargets(transitions) ==
  LET names == [i \in 1..Len(transitions) |-> transitions[i].to]
  IN SelectSeq(names, LAMBDA n : n # "")

IsTarget(t) == ToLowerCase(t.to) = ToLowerCase(TARGET_STATUS)

\* variant: takes the first offered transition, whatever its destination
FindTargetFirst(transitions) ==
  IF Len(transitions) > 0 THEN transitions[1] ELSE Tr(NULL, NULL, NULL)

\* transitions.find(t => lower(t.to.name) === lower(TARGET_STATUS)): first match
FindTarget(transitions) ==
  IF \E i \in 1..Len(transitions) : IsTarget(transitions[i])
  THEN LET k == CHOOSE i \in 1..Len(transitions) :
                  /\ IsTarget(transitions[i])
                  /\ \A j \in 1..(i - 1) : ~IsTarget(transitions[j])
       IN transitions[k]
  ELSE Tr(NULL, NULL, NULL)

\* availableTargets.join(', ') || '(none)'
AvailableText(transitions) ==
  IF AvailableTargets(transitions) = <<>> THEN <<"(none)">>
  ELSE AvailableTargets(transitions)

(* ---------------- state ---------------- *)

VARIABLES
  workflow,         \* Provider: the transitions of the item's workflow
  status,           \* Provider: issue.fields.status.name
  approversField,   \* Provider: issue.fields[APPROVER_CF]
  approvalDate,     \* Provider: issue.fields[APPROVAL_DATE_CF]
  approvalGivenBy,  \* Provider: issue.fields[APPROVAL_GIVEN_BY_CF]
  votesProp,        \* Store: issue property approvalVotes
  pc,               \* per client: the awaited call its running resolver makes next
  loc,              \* per client: the resolver's local variables
  last,             \* what the resolver that finished last returned or threw
  opsStarted,       \* number of resolver invocations so far
  pokerStore,       \* estimation: the value stored under the item's storage key
  pokerLast,        \* estimation: what the last resolver call returned or threw
  pokerOps,         \* estimation: number of resolver calls so far
  ctx,              \* controller: the item the effects last ran for
  initialLoading,   \* controller: useState(true)
  gate,             \* controller: the cached projection
  error,            \* controller: the error shown
  approving,        \* controller: an approve is under way
  inFlightRef,      \* controller: inFlightRef.current
  lastFetchMs,      \* controller: lastFetchMs.current
  debounceTimer,    \* controller: the deadline of the pending timer
  now,              \* controller: Date.now()
  calls,            \* controller: the getIssueData invocations not settled
  approveCall,      \* controller: the approveIssue invocation of onApprove
  server,           \* controller: the status of every item at the Provider
  fetchCount,       \* controller: number of getIssueData invocations so far
  ctlEvents,        \* controller: number of events from outside so far
  notified,         \* controller: history of the notifications delivered
  panel,            \* direct panel: its React state
  loads             \* direct panel: the load() executions that have not returned

engine == << workflow, status, approversField, approvalDate, approvalGivenBy,
             votesProp, pc, loc, last, opsStarted >>

poker == << pokerStore, pokerLast, pokerOps >>

controller == << ctx, initialLoading, gate, error, approving, inFlightRef,
                 lastFetchMs, debounceTimer, now, calls, approveCall, server,
                 fetchCount, ctlEvents, notified >>

direct == << panel, loads >>

\* what the resolvers of the approval engine never touch
elsewhere == << pokerStore, pokerLast, pokerOps, ctx, initialLoading, gate,
               error, approving, inFlightRef, lastFetchMs, debounceTimer, now,
               calls, approveCall, server, fetchCount, ctlEvents, notified,
               panel, loads >>

vars == << workflow, status, approversField, approvalDate, approvalGivenBy,
           votesProp, pc, loc, last, opsStarted,
           pokerStore, pokerLast, pokerOps,
           ctx, initialLoading, gate, error, approving, inFlightRef,
           lastFetchMs, debounceTimer, now, calls, approveCall, server,
           fetchCount, ctlEvents, notified, panel, loads >>

provider == << workflow, status, approversField, approvalDate, approvalGivenBy >>

NoLoc ==
  [op |-> "none", me |-> NULL, statusName |-> NULL, approvers |-> <<>>,
   by |-> NULL, date |-> NULL, targetId |-> NULL, read |-> <<>>,
   votes |-> <<>>, transitioned |-> FALSE]

NoResult == [client |-> "none", actor |-> NULL, op |-> "none", kind |-> "none"]

\* the item was moved out of status from outside the app after the last
\* resolver finished
ExternalChange(from) ==
  [client |-> "none", actor |-> NULL, op |-> "external", kind |-> "external",
   from |-> from]

Resolves(idOrKey) == idOrKey = ISSUE_KEY \/ idOrKey = ISSUE_ID

Idle(c) == pc[c] = "idle"

AllIdle == \A c \in Clients : Idle(c)

\* the ledger as every resolver reads it
Ledger == GetIssuePropertyOrEmpty(votesProp)

(* ---------------- results of a resolver ---------------- *)

\* assertOk: `${label} failed: ${res.status} ...`
Failed(op, label) == [op |-> op, kind |-> "Failed", label |-> label]

\* the response status of GET .../properties/{key}: the Provider answers 404
\* for a property that does not exist
PropertyGetStatus(prop, ok) ==
  IF ~ok THEN "500" ELSE IF prop.exists THEN "200" ELSE "404"

\* variant: assertOk comes before the 404 test
PropertyGetThrowsOn404(st) == st # "200"

\* if (res.status === 404) return []; await assertOk(res, 'Property GET')
PropertyGetThrows(st) == st \notin {"200", "404"}

\* the error of a failed property GET carries the response status
PropertyGetFailed(op, st) == Failed(op, "Property GET") @@ [http |-> st]

\* 'Missing issueKey/issueId'
MissingRef(op) == [op |-> op, kind |-> "MissingRef"]

\* `Must be in "${REQUIRED_STATUS}" to approve (current: ${statusName})`
InvalidState(statusName) ==
  [op |-> "approveIssue", kind |-> "InvalidState",
   required |-> REQUIRED_STATUS, current |-> statusName]

\* 'Only listed approvers can approve this issue'
NotAuthorized == [op |-> "approveIssue", kind |-> "NotAuthorized"]

\* `No transition to "${TARGET_STATUS}" from "${statusName}". Available: ...`
NoTransition(statusName, transitions) ==
  [op |-> "approveIssue", kind |-> "NoTransition", target |-> TARGET_STATUS,
   from |-> statusName, available |-> AvailableText(transitions)]

\* { message: `Approved by ${me.displayName}` }
ApprovedMessage(me) ==
  [op |-> "approveIssue", kind |-> "Approved", by |-> DisplayName(me)]

\* the resolver invoked by client c for actor a returns or throws r; its locals
\* go out of scope
Finish(c, a, r) ==
  /\ pc' = [pc EXCEPT ![c] = "idle"]
  /\ loc' = [loc EXCEPT ![c] = NoLoc]
  /\ last' = [client |-> c, actor |-> a] @@ r
  /\ UNCHANGED elsewhere

\* the resolver goes on to its next awaited call with locals l; the result of
\* the previous invocation is remembered only while invocations do not overlap
Goto(c, label, l) ==
  /\ pc' = [pc EXCEPT ![c] = label]
  /\ loc' = [loc EXCEPT ![c] = l]
  /\ last' = IF \A d \in Clients \ {c} : Idle(d) THEN last ELSE NoResult
  /\ UNCHANGED elsewhere

(* ---------------- approveIssue ---------------- *)

\* variant: the membership guard comes first
PreconditionErrorMembershipFirst(statusName, approvers, me) ==
  IF Len(approvers) = 0 \/ ~CurrentUserIsApprover(approvers, me)
  THEN "NotAuthorized"
  ELSE IF statusName # REQUIRED_STATUS THEN "InvalidState" ELSE "none"

\* variant: any actor passes once the approver list is non-empty
PreconditionErrorAnyActor(statusName, approvers, me) ==
  IF statusName # REQUIRED_STATUS THEN "InvalidState"
  ELSE IF Len(approvers) = 0 THEN "NotAuthorized" ELSE "none"

\* the two guards of approveIssue, in the order the code evaluates them
PreconditionError(statusName, approvers, me) ==
  IF statusName # REQUIRED_STATUS THEN "InvalidState"
  ELSE IF Len(approvers) = 0 \/ ~CurrentUserIsApprover(approvers, me)
       THEN "NotAuthorized"
       ELSE "none"

\* variant: the ledger is never written
NeedsVoteWriteNever(votes, me) == FALSE

\* variant: the ledger is written whether or not the actor is in it
NeedsVoteWriteAlways(votes, me) == TRUE

\* if (!votes.includes(me.accountId)) { votes.push(me.accountId); PUT }
NeedsVoteWrite(votes, me) == ~Includes(votes, me)

\* variant: the actor is pushed twice
PushVoteTwice(votes, me) == Append(Append(votes, me), me)

\* variant: the push drops the oldest entry
PushVoteDropFirst(votes, me) ==
  IF votes = <<>> THEN <<me>> ELSE Append(Tail(votes), me)

\* variant: the write keeps only the actor
PushVoteOverwrite(votes, me) == <<me>>

PushVote(votes, me) == Append(votes, me)

\* the invocation up to and including its first read of the item: payload
\* check, getMyself, getIssueByKeyOrId, then the status and membership guards
\* (the payload check and getMyself touch nothing that another session writes)
ApproveStart(c, a, payload) ==
  /\ Idle(c)
  /\ opsStarted < MaxOps
  /\ opsStarted' = opsStarted + 1
  /\ IF IdOrKey(payload) = ""
     THEN Finish(c, a, MissingRef("approveIssue"))
     ELSE \E failing \in {"none", "myself", "issue"} :
            IF failing = "myself"
            THEN Finish(c, a, Failed("approveIssue", "myself fetch"))
            ELSE IF failing = "issue" \/ ~Resolves(IdOrKey(payload))
            THEN Finish(c, a, Failed("approveIssue", "Issue fetch"))
            ELSE LET statusName == status
                     approvers == ApproversOf(approversField)
                     err == PreconditionError(statusName, approvers, a)
                 IN CASE err = "InvalidState" ->
                           Finish(c, a, InvalidState(statusName))
                      [] err = "NotAuthorized" -> Finish(c, a, NotAuthorized)
                      [] OTHER ->
                           Goto(c, "ap_transitions",
                                [NoLoc EXCEPT !.op = "approveIssue",
                                              !.me = a,
                                              !.statusName = statusName,
                                              !.approvers = approvers])
  /\ UNCHANGED << provider, votesProp >>

\* variant: the vote is recorded before the transition is looked for
ApGetTransitionsVoting(c) ==
  /\ pc[c] = "ap_transitions"
  /\ \E ok \in BOOLEAN :
       IF ~ok
       THEN /\ Finish(c, loc[c].me, Failed("approveIssue", "Transitions fetch"))
            /\ UNCHANGED votesProp
       ELSE LET transitions == TransitionsFrom(workflow, status)
                target == FindTarget(transitions)
            IN /\ votesProp' = Property(ArrayValue(PushVote(Ledger, loc[c].me)))
               /\ IF target.id = NULL
                  THEN Finish(c, loc[c].me,
                              NoTransition(loc[c].statusName, transitions))
                  ELSE Goto(c, "ap_post", [loc[c] EXCEPT !.targetId = target.id])
  /\ UNCHANGED << provider, opsStarted >>

\* GET transitions, locate the one that leads to TARGET_STATUS
ApGetTransitions(c) ==
  /\ pc[c] = "ap_transitions"
  /\ \E ok \in BOOLEAN :
       IF ~ok
       THEN Finish(c, loc[c].me, Failed("approveIssue", "Transitions fetch"))
       ELSE LET transitions == TransitionsFrom(workflow, status)
                target == FindTarget(transitions)
            IN IF target.id = NULL
               THEN Finish(c, loc[c].me,
                           NoTransition(loc[c].statusName, transitions))
               ELSE Goto(c, "ap_post", [loc[c] EXCEPT !.targetId = target.id])
  /\ UNCHANGED << provider, votesProp, opsStarted >>

\* variant: the transition waits until every approver is in the ledger
ApPostTransitionQuorum(c) ==
  /\ pc[c] = "ap_post"
  /\ \E ok \in BOOLEAN :
       LET offered == TransitionsFrom(workflow, status)
           hit == {i \in 1..Len(offered) : offered[i].id = loc[c].targetId}
           quorum == Range(loc[c].approvers) \subseteq
                       (Range(Ledger) \cup {loc[c].me})
       IN IF ok /\ hit # {}
          THEN IF quorum
               THEN /\ status' = offered[CHOOSE i \in hit : TRUE].to
                    /\ Goto(c, "ap_fields", [loc[c] EXCEPT !.transitioned = TRUE])
               ELSE /\ Goto(c, "ap_fields", loc[c])
                    /\ UNCHANGED status
          ELSE /\ Finish(c, loc[c].me, Failed("approveIssue", "Transition"))
               /\ UNCHANGED status
  /\ UNCHANGED << workflow, approversField, approvalDate, approvalGivenBy,
                  votesProp, opsStarted >>

\* POST the transition; the Provider rejects an id that is not offered from
\* the status the item has by now
ApPostTransition(c) ==
  /\ pc[c] = "ap_post"
  /\ \E ok \in BOOLEAN :
       LET offered == TransitionsFrom(workflow, status)
           hit == {i \in 1..Len(offered) : offered[i].id = loc[c].targetId}
       IN IF ok /\ hit # {}
          THEN /\ status' = offered[CHOOSE i \in hit : TRUE].to
               /\ Goto(c, "ap_fields", [loc[c] EXCEPT !.transitioned = TRUE])
          ELSE /\ Finish(c, loc[c].me, Failed("approveIssue", "Transition"))
               /\ UNCHANGED status
  /\ UNCHANGED << workflow, approversField, approvalDate, approvalGivenBy,
                  votesProp, opsStarted >>

\* variant: a failed field update puts the item back into the status read
ApUpdateFieldsUndo(c) ==
  /\ pc[c] = "ap_fields"
  /\ \E ok \in BOOLEAN :
       IF ok
       THEN /\ approvalDate' = NOW_ISO
            /\ approvalGivenBy' = loc[c].me
            /\ Goto(c, "ap_votes", loc[c])
            /\ UNCHANGED status
       ELSE /\ Finish(c, loc[c].me, Failed("approveIssue", "Issue update"))
            /\ status' = loc[c].statusName
            /\ UNCHANGED << approvalDate, approvalGivenBy >>
  /\ UNCHANGED << workflow, approversField, votesProp, opsStarted >>

\* updateIssueFields: approval date and approving actor
ApUpdateFields(c) ==
  /\ pc[c] = "ap_fields"
  /\ \E ok \in BOOLEAN :
       IF ok
       THEN /\ approvalDate' = NOW_ISO
            /\ approvalGivenBy' = loc[c].me
            /\ Goto(c, "ap_votes", loc[c])
       ELSE /\ Finish(c, loc[c].me, Failed("approveIssue", "Issue update"))
            /\ UNCHANGED << approvalDate, approvalGivenBy >>
  /\ UNCHANGED << workflow, status, approversField, votesProp, opsStarted >>

\* read the ledger; an actor who is already in it returns without a write
ApGetVotes(c) ==
  /\ pc[c] = "ap_votes"
  /\ \E ok \in BOOLEAN :
       IF PropertyGetThrows(PropertyGetStatus(votesProp, ok))
       THEN Finish(c, loc[c].me,
                   PropertyGetFailed("approveIssue", PropertyGetStatus(votesProp, ok)))
       ELSE LET votes == GetIssuePropertyOrEmpty(votesProp)
            IN IF NeedsVoteWrite(votes, loc[c].me)
               THEN Goto(c, "ap_put",
                         [loc[c] EXCEPT !.read = votes,
                                        !.votes = PushVote(votes, loc[c].me)])
               ELSE Finish(c, loc[c].me, ApprovedMessage(loc[c].me))
  /\ UNCHANGED << provider, votesProp, opsStarted >>

\* putIssueProperty with the list read before plus the actor
ApPutVotes(c) ==
  /\ pc[c] = "ap_put"
  /\ \E ok \in BOOLEAN :
       IF ok
       THEN /\ votesProp' = Property(ArrayValue(loc[c].votes))
            /\ Finish(c, loc[c].me, ApprovedMessage(loc[c].me))
       ELSE /\ Finish(c, loc[c].me, Failed("approveIssue", "Property PUT"))
            /\ UNCHANGED votesProp
  /\ UNCHANGED << provider, opsStarted >>

(* ---------------- getIssueData ---------------- *)

ProjectionResult(proj) == [op |-> "getIssueData", kind |-> "Projection", proj |-> proj]

\* payload check, then Promise.all([getIssueByKeyOrId(idOrKey), getMyself()]):
\* the call that fails decides the error
GetDataStart(c, a, payload) ==
  /\ Idle(c)
  /\ opsStarted < MaxOps
  /\ opsStarted' = opsStarted + 1
  /\ IF IdOrKey(payload) = ""
     THEN Finish(c, a, MissingRef("getIssueData"))
     ELSE \E failing \in {"none", "myself", "issue"} :
            IF failing = "myself"
            THEN Finish(c, a, Failed("getIssueData", "myself fetch"))
            ELSE IF failing = "issue" \/ ~Resolves(IdOrKey(payload))
            THEN Finish(c, a, Failed("getIssueData", "Issue fetch"))
            ELSE Goto(c, "gd_votes",
                      [NoLoc EXCEPT !.op = "getIssueData",
                                    !.me = a,
                                    !.statusName = status,
                                    !.approvers = ApproversOf(approversField),
                                    !.by = approvalGivenBy,
                                    !.date = approvalDate])
  /\ UNCHANGED << provider, votesProp >>

\* variant: a missing ledger is created while it is read
GdGetVotesStoring(c) ==
  /\ pc[c] = "gd_votes"
  /\ \E ok \in BOOLEAN :
       IF PropertyGetThrows(PropertyGetStatus(votesProp, ok))
       THEN /\ Finish(c, loc[c].me,
                   PropertyGetFailed("getIssueData", PropertyGetStatus(votesProp, ok)))
            /\ UNCHANGED votesProp
       ELSE LET votes == GetIssuePropertyOrEmpty(votesProp)
            IN /\ Finish(c, loc[c].me, ProjectionResult(
                    Projection(loc[c].statusName, loc[c].approvers, votes,
                               loc[c].me, loc[c].by, loc[c].date)))
               /\ votesProp' = Property(ArrayValue(votes))
  /\ UNCHANGED << provider, opsStarted >>

\* read the ledger and build the view model
GdGetVotes(c) ==
  /\ pc[c] = "gd_votes"
  /\ \E ok \in BOOLEAN :
       IF PropertyGetThrows(PropertyGetStatus(votesProp, ok))
       THEN Finish(c, loc[c].me,
                   PropertyGetFailed("getIssueData", PropertyGetStatus(votesProp, ok)))
       ELSE LET votes == GetIssuePropertyOrEmpty(votesProp)
            IN Finish(c, loc[c].me, ProjectionResult(
                 Projection(loc[c].statusName, loc[c].approvers, votes,
                            loc[c].me, loc[c].by, loc[c].date)))
  /\ UNCHANGED << provider, votesProp, opsStarted >>

(* ---------------- resetApprovalOnReady ---------------- *)

ResetResult(reset, reason) ==
  [op |-> "resetApprovalOnReady", kind |-> "Reset", reset |-> reset,
   reason |-> reason]

\* variant: the item never counts as clear
AlreadyClearNever(date, by, votes) == FALSE

\* variant: the ledger is not looked at
AlreadyClearFieldsOnly(date, by, votes) == date = NULL /\ by = NULL

\* !currentDate && !currentBy && votes.length === 0
AlreadyClear(date, by, votes) == date = NULL /\ by = NULL /\ Len(votes) = 0

\* payload check, getIssueByKeyOrId and the status guard
ResetStart(c, payload) ==
  /\ Idle(c)
  /\ opsStarted < MaxOps
  /\ opsStarted' = opsStarted + 1
  /\ IF IdOrKey(payload) = ""
     THEN Finish(c, NULL, MissingRef("resetApprovalOnReady"))
     ELSE \E ok \in BOOLEAN :
            IF ~ok \/ ~Resolves(IdOrKey(payload))
            THEN Finish(c, NULL, Failed("resetApprovalOnReady", "Issue fetch"))
            ELSE IF status # REQUIRED_STATUS
            THEN Finish(c, NULL, ResetResult(FALSE, "Status is"))
            ELSE Goto(c, "rs_votes",
                      [NoLoc EXCEPT !.op = "resetApprovalOnReady",
                                    !.statusName = status,
                                    !.by = approvalGivenBy,
                                    !.date = approvalDate])
  /\ UNCHANGED << provider, votesProp >>

RsGetVotes(c) ==
  /\ pc[c] = "rs_votes"
  /\ \E ok \in BOOLEAN :
       IF PropertyGetThrows(PropertyGetStatus(votesProp, ok))
       THEN Finish(c, loc[c].me,
                   PropertyGetFailed("resetApprovalOnReady", PropertyGetStatus(votesProp, ok)))
       ELSE LET votes == GetIssuePropertyOrEmpty(votesProp)
            IN IF AlreadyClear(loc[c].date, loc[c].by, votes)
               THEN Finish(c, loc[c].me, ResetResult(FALSE, "Already clear"))
               ELSE Goto(c, "rs_fields", [loc[c] EXCEPT !.votes = votes])
  /\ UNCHANGED << provider, votesProp, opsStarted >>

RsUpdateFields(c) ==
  /\ pc[c] = "rs_fields"
  /\ \E ok \in BOOLEAN :
       IF ok
       THEN /\ approvalDate' = NULL
            /\ approvalGivenBy' = NULL
            /\ Goto(c, "rs_put", loc[c])
       ELSE /\ Finish(c, loc[c].me, Failed("resetApprovalOnReady", "Issue update"))
            /\ UNCHANGED << approvalDate, approvalGivenBy >>
  /\ UNCHANGED << workflow, status, approversField, votesProp, opsStarted >>

\* variant: the reset stores the ledger it read
RsPutVotesKeeping(c) ==
  /\ pc[c] = "rs_put"
  /\ \E ok \in BOOLEAN :
       IF ok
       THEN /\ votesProp' = Property(ArrayValue(loc[c].votes))
            /\ Finish(c, loc[c].me, ResetResult(TRUE, ""))
       ELSE /\ Finish(c, loc[c].me, Failed("resetApprovalOnReady", "Property PUT"))
            /\ UNCHANGED votesProp
  /\ UNCHANGED << provider, opsStarted >>

\* putIssueProperty(issue.id, APPROVAL_PROPERTY_KEY, [])
RsPutVotes(c) ==
  /\ pc[c] = "rs_put"
  /\ \E ok \in BOOLEAN :
       IF ok
       THEN /\ votesProp' = Property(ArrayValue(<<>>))
            /\ Finish(c, loc[c].me, ResetResult(TRUE, ""))
       ELSE /\ Finish(c, loc[c].me, Failed("resetApprovalOnReady", "Property PUT"))
            /\ UNCHANGED votesProp
  /\ UNCHANGED << provider, opsStarted >>

(* ---------------- the Provider's other users ---------------- *)

\* somebody moves the item along a transition of the workflow outside the
\* app (send back, re-open, ...)
ExternalTransition ==
  /\ \E i \in 1..Len(workflow) :
       /\ workflow[i].from = status
       /\ workflow[i].to # ""
       /\ workflow[i].to # status
       /\ status' = workflow[i].to
  /\ last' = ExternalChange(status)
  /\ UNCHANGED << workflow, approversField, approvalDate, approvalGivenBy,
                  votesProp, pc, loc, opsStarted >>
  /\ UNCHANGED elsewhere

(* ---------------- the estimation variant: data ---------------- *)

STORAGE_PREFIX == "poker-estimates"

\* `${STORAGE_PREFIX}:${issueKey}`
getStorageKey(issueKey) == << STORAGE_PREFIX, issueKey >>

\* the items estimated in a behaviour
PokerIssues == {ISSUE_KEY, "SCRUM-2"}

StorageKeys == {getStorageKey(k) : k \in PokerIssues}

\* an entry of a participant list as a client sends it
Participant(a, name) == [accountId |-> a, displayName |-> name, avatar |-> "48x48"]

\* estimates keyed by accountId; {} has no key
NoEstimates == [a \in {} |-> NULL]

normalizeParticipants(participants) ==
  IF ~participants.isArray THEN <<>>
  ELSE LET kept == SelectSeq(participants.value,
                             LAMBDA p : p.accountId # "" /\ p.displayName # "")
       IN [i \in 1..Len(kept) |->
             [accountId |-> kept[i].accountId, displayName |-> kept[i].displayName]]

\* a value under a storage key: an object, or nothing (storage.get answers
\* undefined)
StoredObject(state) ==
  [isObject |-> TRUE,
   revealed |-> state.revealed,
   estimates |-> state.estimates,
   participants |-> ArrayValue(state.participants)]

NothingStored ==
  [isObject |-> FALSE, revealed |-> FALSE, estimates |-> NoEstimates,
   participants |-> NotArray]

normalizeState(state) ==
  IF ~state.isObject
    THEN [revealed |-> FALSE, estimates |-> NoEstimates, participants |-> <<>>]
    ELSE [revealed |-> state.revealed,
          estimates |-> state.estimates,
          participants |-> normalizeParticipants(state.participants)]

\* Number(estimate) for the values a client sends
NumberOf(estimate) ==
  CASE estimate = "3" -> [isFinite |-> TRUE, value |-> 3]
    [] estimate = "8" -> [isFinite |-> TRUE, value |-> 8]
    [] estimate = "" -> [isFinite |-> TRUE, value |-> 0]
    [] estimate = "-1" -> [isFinite |-> TRUE, value |-> 0 - 1]
    [] OTHER -> [isFinite |-> FALSE, value |-> 0]

EstimateInputs == {"3", "8", "", "-1", "abc"}

\* payloads of the estimation resolvers
PokerIssueKeys == PokerIssues \cup {""}

EstimatePayloads ==
  {[issueKey |-> k, accountId |-> a, displayName |-> n, estimate |-> e] :
     k \in PokerIssueKeys, a \in Actors \cup {""}, n \in {"Some Body", ""},
     e \in EstimateInputs}

ParticipantLists ==
  {NotArray,
   ArrayValue(<<>>),
   ArrayValue(<< Participant("alice", "Alice") >>),
   ArrayValue(<< Participant("bob", "Bob") >>),
   ArrayValue(<< Participant("alice", "Alice"), Participant("bob", "") >>),
   ArrayValue(<< Participant("alice", "Alice"), Participant("bob", "Bob") >>)}

ParticipantPayloads ==
  {[issueKey |-> k, participants |-> l] : k \in PokerIssueKeys, l \in ParticipantLists}

KeyPayloads == {[issueKey |-> k] : k \in PokerIssueKeys}

NoPokerResult == [op |-> "none", kind |-> "none"]

\* the resolver returns state
PokerReturns(op, payload, state) ==
  [op |-> op, kind |-> "state", payload |-> payload, state |-> state]

\* the resolver throws new Error(message)
PokerThrows(op, payload, message) ==
  [op |-> op, kind |-> "error", payload |-> payload, message |-> message]

KEY_REQUIRED == "issueKey is required."
FIELDS_REQUIRED == "issueKey, accountId, and displayName are required."
BAD_ESTIMATE == "Estimate must be a non-negative number."
NOT_ALLOWED == "You are not allowed to participate in this poker session."

\* storage.get(key)
StorageGet(key) == pokerStore[key]

\* storage.set(key, state)
StorageSet(key, state) ==
  pokerStore' = [pokerStore EXCEPT ![key] = StoredObject(state)]

\* one more call of a resolver, with result r
PokerCall(r) ==
  /\ pokerOps < MaxPokerOps
  /\ pokerOps' = pokerOps + 1
  /\ pokerLast' = r
  /\ UNCHANGED engine
  /\ UNCHANGED controller
  /\ UNCHANGED direct

(* ---------------- the estimation variant: resolvers ---------------- *)

GetPokerState(payload) ==
  IF payload.issueKey = ""
    THEN /\ PokerCall(PokerThrows("getPokerState", payload, KEY_REQUIRED))
         /\ UNCHANGED pokerStore
    ELSE LET stored == StorageGet(getStorageKey(payload.issueKey))
         IN /\ PokerCall(PokerReturns("getPokerState", payload,
                                      normalizeState(stored)))
            /\ UNCHANGED pokerStore

\* variant: nobody is ever refused
ParticipantRefusedNever(allowedParticipants, accountId) == FALSE

\* variant: membership is required even when nobody was configured
ParticipantRefusedWhenEmpty(allowedParticipants, accountId) ==
  ~\E i \in 1..Len(allowedParticipants) :
      allowedParticipants[i].accountId = accountId

\* allowedParticipants.length > 0 && !allowedParticipants.some(...)
ParticipantRefused(allowedParticipants, accountId) ==
  /\ Len(allowedParticipants) > 0
  /\ ~\E i \in 1..Len(allowedParticipants) :
        allowedParticipants[i].accountId = accountId

\* { ...estimates, [accountId]: entry }
WithEstimate(estimates, accountId, entry) ==
  [a \in DOMAIN estimates \cup {accountId} |->
     IF a = accountId THEN entry ELSE estimates[a]]

\* variant: a new estimate leaves the revealed flag as it was
EnterEstimateKeepingRevealed(payload) ==
  LET parsedEstimate == NumberOf(payload.estimate)
      key == getStorageKey(payload.issueKey)
  IN IF payload.issueKey = "" \/ payload.accountId = "" \/ payload.displayName = ""
       THEN /\ PokerCall(PokerThrows("enterEstimate", payload, FIELDS_REQUIRED))
            /\ UNCHANGED pokerStore
     ELSE IF ~parsedEstimate.isFinite \/ parsedEstimate.value < 0
       THEN /\ PokerCall(PokerThrows("enterEstimate", payload, BAD_ESTIMATE))
            /\ UNCHANGED pokerStore
     ELSE LET existing == normalizeState(StorageGet(key))
              nextState ==
                [revealed |-> existing.revealed,
                 estimates |->
                   WithEstimate(existing.estimates, payload.accountId,
                                [displayName |-> payload.displayName,
                                 estimate |-> parsedEstimate.value]),
                 participants |-> existing.participants]
          IN IF ParticipantRefused(existing.participants, payload.accountId)
               THEN /\ PokerCall(PokerThrows("enterEstimate", payload, NOT_ALLOWED))
                    /\ UNCHANGED pokerStore
               ELSE /\ PokerCall(PokerReturns("enterEstimate", payload, nextState))
                    /\ StorageSet(key, nextState)

EnterEstimate(payload) ==
  LET parsedEstimate == NumberOf(payload.estimate)
      key == getStorageKey(payload.issueKey)
  IN IF payload.issueKey = "" \/ payload.accountId = "" \/ payload.displayName = ""
       THEN /\ PokerCall(PokerThrows("enterEstimate", payload, FIELDS_REQUIRED))
            /\ UNCHANGED pokerStore
     ELSE IF ~parsedEstimate.isFinite \/ parsedEstimate.value < 0
       THEN /\ PokerCall(PokerThrows("enterEstimate", payload, BAD_ESTIMATE))
            /\ UNCHANGED pokerStore
     ELSE LET existing == normalizeState(StorageGet(key))
              nextState ==
                [revealed |-> FALSE,
                 estimates |->
                   WithEstimate(existing.estimates, payload.accountId,
                                [displayName |-> payload.displayName,
                                 estimate |-> parsedEstimate.value]),
                 participants |-> existing.participants]
          IN IF ParticipantRefused(existing.participants, payload.accountId)
               THEN /\ PokerCall(PokerThrows("enterEstimate", payload, NOT_ALLOWED))
                    /\ UNCHANGED pokerStore
               ELSE /\ PokerCall(PokerReturns("enterEstimate", payload, nextState))
                    /\ StorageSet(key, nextState)

SetPokerParticipants(payload) ==
  IF payload.issueKey = ""
    THEN /\ PokerCall(PokerThrows("setPokerParticipants", payload, KEY_REQUIRED))
         /\ UNCHANGED pokerStore
    ELSE LET key == getStorageKey(payload.issueKey)
             existing == normalizeState(StorageGet(key))
             nextState ==
               [existing EXCEPT
                  !.participants = normalizeParticipants(payload.participants)]
         IN /\ PokerCall(PokerReturns("setPokerParticipants", payload, nextState))
            /\ StorageSet(key, nextState)

RevealEstimates(payload) ==
  IF payload.issueKey = ""
    THEN /\ PokerCall(PokerThrows("revealEstimates", payload, KEY_REQUIRED))
         /\ UNCHANGED pokerStore
    ELSE LET key == getStorageKey(payload.issueKey)
             existing == normalizeState(StorageGet(key))
             nextState == [existing EXCEPT !.revealed = TRUE]
         IN /\ PokerCall(PokerReturns("revealEstimates", payload, nextState))
            /\ StorageSet(key, nextState)

\* variant: clearing starts the session over, participants included
ClearEstimatesEverything(payload) ==
  IF payload.issueKey = ""
    THEN /\ PokerCall(PokerThrows("clearEstimates", payload, KEY_REQUIRED))
         /\ UNCHANGED pokerStore
    ELSE LET key == getStorageKey(payload.issueKey)
             nextState ==
               [revealed |-> FALSE, estimates |-> NoEstimates,
                participants |-> <<>>]
         IN /\ PokerCall(PokerReturns("clearEstimates", payload, nextState))
            /\ StorageSet(key, nextState)

ClearEstimates(payload) ==
  IF payload.issueKey = ""
    THEN /\ PokerCall(PokerThrows("clearEstimates", payload, KEY_REQUIRED))
         /\ UNCHANGED pokerStore
    ELSE LET key == getStorageKey(payload.issueKey)
             existing == normalizeState(StorageGet(key))
             nextState ==
               [revealed |-> FALSE, estimates |-> NoEstimates,
                participants |-> existing.participants]
         IN /\ PokerCall(PokerReturns("clearEstimates", payload, nextState))
            /\ StorageSet(key, nextState)

(* ---------------- the lean controller: data ---------------- *)

MIN_GAP_MS == 800
EVENT_DEBOUNCE_MS == 400

\* the resolution of the clock of the model
TICK_MS == 200

\* productCtx?.extension?.issue: the items a panel is opened on, and the
\* context that names no item yet
ViewIssues == {ISSUE_KEY, "SCRUM-2"}
NoIssue == ""
Unmounted == "unmounted"

\* useState(null) for gate and error, useRef(null) for debounceTimer
NoGate == [present |-> FALSE, issue |-> NoIssue, statusName |-> NULL,
           canApprove |-> FALSE, message |-> NULL]
NoError == NULL
NoTimer == 0 - 1

\* what getIssueData answers for an item in status statusName, asked by one of
\* its approvers
GateOf(issue, statusName) ==
  [present |-> TRUE, issue |-> issue, statusName |-> statusName,
   canApprove |-> statusName = REQUIRED_STATUS, message |-> NULL]

\* the rejections of invoke: an upstream failure and an upstream throttling
\* signal
UPSTREAM_ERROR == "500 Internal Server Error"
RATE_LIMITED == "429 Too Many Requests"
FetchErrors == {UPSTREAM_ERROR, RATE_LIMITED}

\* the resolver has not produced its answer yet
NotServed == [served |-> FALSE, statusName |-> NULL]
Served(statusName) == [served |-> TRUE, statusName |-> statusName]

\* an invoke('getIssueData') that has not settled: n numbers the invocations,
\* awaited says that onApprove awaits it
GateCall(n, issue, isInitial, awaited) ==
  [n |-> n, issue |-> issue, isInitial |-> isInitial, awaited |-> awaited,
   answer |-> NotServed]

NoApprove == [phase |-> "none", issue |-> NoIssue]

\* the notifications delivered so far: when the last one arrived, whether a
\* fetch was in flight then, how many notifications the burst it belongs to
\* counts (a burst is a run of notifications each less than EVENT_DEBOUNCE_MS
\* after the one before), how many getIssueData invocations the timer
\* has issued since that burst began, when the timer issued its last
\* invocation and whether that invocation has resolved, how many events
\* from outside had happened when the last notification had arrived and
\* whether an onApprove was running then
NotNotified ==
  [at |-> NoTimer, inFlight |-> FALSE, size |-> 0, issued |-> 0,
   fetchAt |-> NoTimer, fetchOk |-> FALSE, events |-> 0, approving |-> FALSE]

\* the last notification is continued by one that arrives now
SameBurst == notified.at # NoTimer /\ now - notified.at < EVENT_DEBOUNCE_MS

Notified ==
  [at |-> now,
   inFlight |-> inFlightRef,
   size |-> IF SameBurst THEN notified.size + 1 ELSE 1,
   issued |-> IF SameBurst THEN notified.issued ELSE 0,
   fetchAt |-> notified.fetchAt,
   fetchOk |-> notified.fetchOk,
   events |-> ctlEvents + 1,
   approving |-> approving]

\* the view shows the Approve button, enabled
ButtonEnabled ==
  /\ ~initialLoading
  /\ gate.present
  /\ gate.statusName # "Approved"
  /\ gate.canApprove
  /\ ~approving

(* ---------------- the lean controller: handlers ---------------- *)

\* the event is one more event from outside
CtlEvent ==
  /\ ctlEvents < MaxCtlEvents
  /\ ctlEvents' = ctlEvents + 1

\* variant: the guard looks at the throttle only
FetchDroppedThrottleOnly(issue) ==
  \/ issue = NoIssue
  \/ now - lastFetchMs < MIN_GAP_MS

\* variant: the guard looks at the flight in progress only
FetchDroppedInFlightOnly(issue) ==
  \/ issue = NoIssue
  \/ inFlightRef

\* the two early returns of fetchGate
FetchDropped(issue) ==
  \/ issue = NoIssue
  \/ inFlightRef
  \/ now - lastFetchMs < MIN_GAP_MS

\* fetchGate(isInitial) of the render for issue, up to its await
fetchGate(isInitial, issue, awaited) ==
  IF FetchDropped(issue)
    THEN UNCHANGED << inFlightRef, calls, fetchCount >>
    ELSE /\ inFlightRef' = TRUE
         /\ fetchCount' = fetchCount + 1
         /\ calls' = calls \cup {GateCall(fetchCount + 1, issue, isInitial, awaited)}

\* the product context names another item (or the panel is mounted): the
\* subscription of the previous render is cleaned up and both effects run
RunEffects(issue) ==
  /\ CtlEvent
  /\ issue # ctx
  /\ ctx' = issue
  /\ debounceTimer' = NoTimer
  /\ initialLoading' = TRUE
  /\ fetchGate(TRUE, issue, FALSE)
  /\ UNCHANGED << gate, error, approving, lastFetchMs, now, approveCall, server >>
  /\ UNCHANGED << engine, poker, direct, notified >>

\* variant: a pending timer is left alone
NotifyWithoutReschedule ==
  /\ CtlEvent
  /\ ctx \in ViewIssues
  /\ debounceTimer' = IF debounceTimer # NoTimer THEN debounceTimer
                      ELSE now + EVENT_DEBOUNCE_MS
  /\ notified' = Notified
  /\ UNCHANGED << ctx, initialLoading, gate, error, approving, inFlightRef,
                  lastFetchMs, now, calls, approveCall, server, fetchCount >>
  /\ UNCHANGED << engine, poker, direct >>

\* JIRA_ISSUE_CHANGED is delivered: onChanged clears the pending timer and
\* sets a new one
Notify ==
  /\ CtlEvent
  /\ ctx \in ViewIssues
  /\ debounceTimer' = now + EVENT_DEBOUNCE_MS
  /\ notified' = Notified
  /\ UNCHANGED << ctx, initialLoading, gate, error, approving, inFlightRef,
                  lastFetchMs, now, calls, approveCall, server, fetchCount >>
  /\ UNCHANGED << engine, poker, direct >>

\* the timer set by onChanged fires, at its deadline or later
TimerFires ==
  /\ debounceTimer # NoTimer
  /\ now >= debounceTimer
  /\ debounceTimer' = NoTimer
  /\ fetchGate(FALSE, ctx, FALSE)
  /\ notified' = IF FetchDropped(ctx) THEN notified
                 ELSE [notified EXCEPT !.issued = @ + 1,
                                       !.fetchAt = now,
                                       !.fetchOk = FALSE]
  /\ UNCHANGED << ctx, initialLoading, gate, error, approving, lastFetchMs,
                  now, approveCall, server, ctlEvents >>
  /\ UNCHANGED << engine, poker, direct >>

\* time passes
Tick ==
  /\ now < MIN_GAP_MS + MaxTicks * TICK_MS
  /\ now' = now + TICK_MS
  /\ UNCHANGED << ctx, initialLoading, gate, error, approving, inFlightRef,
                  lastFetchMs, debounceTimer, calls, approveCall, server,
                  fetchCount, ctlEvents >>
  /\ UNCHANGED << engine, poker, direct, notified >>

\* the getIssueData resolver reads the item for invocation f
ServeCall(f) ==
  /\ ~f.answer.served
  /\ calls' = (calls \ {f}) \cup {[f EXCEPT !.answer = Served(server[f.issue])]}
  /\ UNCHANGED << ctx, initialLoading, gate, error, approving, inFlightRef,
                  lastFetchMs, debounceTimer, now, approveCall, server,
                  fetchCount, ctlEvents >>
  /\ UNCHANGED << engine, poker, direct, notified >>

\* fetchGate returns to the onApprove that awaits it: finally setApproving(false)
Resume(f) ==
  IF f.awaited
    THEN approving' = FALSE /\ approveCall' = NoApprove
    ELSE UNCHANGED << approving, approveCall >>

\* variant: the answer is not stored
FetchSucceedsKeepingGate(f) ==
  /\ f.answer.served
  /\ error' = NoError
  /\ lastFetchMs' = now
  /\ inFlightRef' = FALSE
  /\ initialLoading' = IF f.isInitial THEN FALSE ELSE initialLoading
  /\ calls' = calls \ {f}
  /\ Resume(f)
  /\ notified' = IF f.isInitial \/ f.awaited THEN notified
                 ELSE [notified EXCEPT !.fetchOk = TRUE]
  /\ UNCHANGED << ctx, gate, debounceTimer, now, server, fetchCount, ctlEvents >>
  /\ UNCHANGED << engine, poker, direct >>

\* invocation f resolves: the try block and the finally block of fetchGate
FetchSucceeds(f) ==
  /\ f.answer.served
  /\ gate' = GateOf(f.issue, f.answer.statusName)
  /\ error' = NoError
  /\ lastFetchMs' = now
  /\ inFlightRef' = FALSE
  /\ initialLoading' = IF f.isInitial THEN FALSE ELSE initialLoading
  /\ calls' = calls \ {f}
  /\ Resume(f)
  /\ notified' = IF f.isInitial \/ f.awaited THEN notified
                 ELSE [notified EXCEPT !.fetchOk = TRUE]
  /\ UNCHANGED << ctx, debounceTimer, now, server, fetchCount, ctlEvents >>
  /\ UNCHANGED << engine, poker, direct >>

\* invocation f rejects with message e: the catch block and the finally block
\* of fetchGate
FetchFails(f, e) ==
  /\ error' = e
  /\ inFlightRef' = FALSE
  /\ initialLoading' = IF f.isInitial THEN FALSE ELSE initialLoading
  /\ calls' = calls \ {f}
  /\ Resume(f)
  /\ UNCHANGED << ctx, gate, lastFetchMs, debounceTimer, now, server,
                  fetchCount, ctlEvents >>
  /\ UNCHANGED << engine, poker, direct, notified >>

\* the user presses Approve: onApprove up to its first await
ClickApprove ==
  /\ CtlEvent
  /\ ButtonEnabled
  /\ approving' = TRUE
  /\ error' = NoError
  /\ approveCall' = [phase |-> "invoked", issue |-> ctx]
  /\ UNCHANGED << ctx, initialLoading, gate, inFlightRef, lastFetchMs,
                  debounceTimer, now, calls, server, fetchCount >>
  /\ UNCHANGED << engine, poker, direct, notified >>

\* approveIssue moves the item and answers: the message is shown and
\* fetchGate(false) is awaited
ApproveSucceeds ==
  /\ approveCall.phase = "invoked"
  /\ approveCall.issue \in ViewIssues
  /\ server[approveCall.issue] = REQUIRED_STATUS
  /\ server' = [server EXCEPT ![approveCall.issue] = TARGET_STATUS]
  /\ gate' = IF gate.present THEN [gate EXCEPT !.message = "Approved by"] ELSE gate
  /\ fetchGate(FALSE, approveCall.issue, TRUE)
  /\ IF FetchDropped(approveCall.issue)
       THEN approving' = FALSE /\ approveCall' = NoApprove
       ELSE /\ approveCall' = [approveCall EXCEPT !.phase = "refreshing"]
            /\ UNCHANGED approving
  /\ UNCHANGED << ctx, initialLoading, error, lastFetchMs, debounceTimer, now,
                  ctlEvents >>
  /\ UNCHANGED << engine, poker, direct, notified >>

\* approveIssue throws (a precondition, a missing reference, an upstream
\* failure): the catch block and the finally block of onApprove
ApproveFails ==
  /\ approveCall.phase = "invoked"
  /\ error' = IF approveCall.issue = NoIssue THEN "MissingRef"
              ELSE IF server[approveCall.issue] # REQUIRED_STATUS
                     THEN "InvalidState"
                     ELSE UPSTREAM_ERROR
  /\ approving' = FALSE
  /\ approveCall' = NoApprove
  /\ UNCHANGED << ctx, initialLoading, gate, inFlightRef, lastFetchMs,
                  debounceTimer, now, calls, server, fetchCount, ctlEvents >>
  /\ UNCHANGED << engine, poker, direct, notified >>

\* somebody else moves an item: sent back for review, or approved
ItemMoved(issue) ==
  /\ CtlEvent
  /\ server' = [server EXCEPT ![issue] =
                  IF @ = REQUIRED_STATUS THEN TARGET_STATUS ELSE REQUIRED_STATUS]
  /\ UNCHANGED << ctx, initialLoading, gate, error, approving, inFlightRef,
                  lastFetchMs, debounceTimer, now, calls, approveCall,
                  fetchCount >>
  /\ UNCHANGED << engine, poker, direct, notified >>

(* ---------------- the panel that reads the Provider itself ---------------- *)

REQUIRED_STATUS_NAME == "In Review"
DONE_STATUS_NAME == "Done"

\* the React state of the panel after construction
PanelConstructed ==
  [issueKey |-> Unmounted, loading |-> TRUE, error |-> NoError, issue |-> NULL,
   currentUser |-> NULL, approvedBy |-> <<>>, canShowApprove |-> FALSE,
   started |-> 0]

\* a load() that has not returned: the request it awaits and what it has read
\* so far
Load(n, at, user, statusName) ==
  [n |-> n, at |-> at, user |-> user, statusName |-> statusName]

\* `${res.status} ${res.statusText}` thrown by fetchJson
FetchJsonErrors == {UPSTREAM_ERROR, RATE_LIMITED}

\* what the panel renders: the error alone, the spinner, or the view
Rendered(p) ==
  IF p.error # NoError THEN "error"
  ELSE IF p.loading THEN "spinner"
  ELSE IF p.issueKey = NoIssue THEN "spinner"
  ELSE "view"

\* the panel's handlers touch nothing but the panel and the Provider
PanelFrame ==
  UNCHANGED << engine, poker, ctx, initialLoading, gate, error, approving,
               inFlightRef, lastFetchMs, debounceTimer, now, calls, approveCall,
               fetchCount, notified >>

\* load() up to its first await
load(issueKey) ==
  IF issueKey = NoIssue
    THEN /\ panel' = [panel EXCEPT !.issueKey = issueKey, !.loading = FALSE]
         /\ UNCHANGED loads
    ELSE /\ panel' = [panel EXCEPT !.issueKey = issueKey, !.loading = TRUE,
                                   !.error = NoError, !.started = @ + 1]
         /\ loads' = loads \cup {Load(panel.started + 1, "myself", NULL, NULL)}

\* the panel is mounted on an item: useEffect(() => { load(); }, [load])
PanelMount(issueKey) ==
  /\ CtlEvent
  /\ panel.issueKey = Unmounted
  /\ load(issueKey)
  /\ UNCHANGED server
  /\ PanelFrame

\* JIRA_ISSUE_CHANGED is delivered: the listener calls load()
PanelNotify ==
  /\ CtlEvent
  /\ panel.issueKey \in ViewIssues
  /\ load(panel.issueKey)
  /\ UNCHANGED server
  /\ PanelFrame

\* GET /myself answers
LoadGotUser(l) ==
  /\ l.at = "myself"
  /\ \E user \in Actors :
       /\ panel' = [panel EXCEPT !.currentUser = user]
       /\ loads' = (loads \ {l}) \cup {[l EXCEPT !.at = "issue", !.user = user]}
  /\ UNCHANGED << server, ctlEvents >>
  /\ PanelFrame

\* GET /issue answers
LoadGotIssue(l) ==
  /\ l.at = "issue"
  /\ panel' = [panel EXCEPT !.issue = server[panel.issueKey]]
  /\ loads' = (loads \ {l}) \cup
                {[l EXCEPT !.at = "votes", !.statusName = server[panel.issueKey]]}
  /\ UNCHANGED << server, ctlEvents >>
  /\ PanelFrame

\* GET of the approvalVotes property answers, with the list or with a failure
\* (404 and every other failure leave votes = []); then the visibility logic
\* and the finally block
LoadGotVotes(l, votes) ==
  /\ l.at = "votes"
  /\ panel' = [panel EXCEPT
                 !.approvedBy = votes,
                 !.canShowApprove = (l.statusName = REQUIRED_STATUS_NAME),
                 !.loading = FALSE]
  /\ loads' = loads \ {l}
  /\ UNCHANGED << server, ctlEvents >>
  /\ PanelFrame

\* GET /myself or GET /issue fails: the outer catch block and the finally block
LoadFails(l, e) ==
  /\ l.at \in {"myself", "issue"}
  /\ panel' = [panel EXCEPT !.error = e, !.loading = FALSE]
  /\ loads' = loads \ {l}
  /\ UNCHANGED << server, ctlEvents >>
  /\ PanelFrame

\* somebody moves the item the panel shows
PanelItemMoved ==
  /\ CtlEvent
  /\ panel.issueKey \in ViewIssues
  /\ server' = [server EXCEPT ![panel.issueKey] =
                  IF @ = REQUIRED_STATUS_NAME THEN DONE_STATUS_NAME
                  ELSE REQUIRED_STATUS_NAME]
  /\ UNCHANGED << panel, loads >>
  /\ PanelFrame

(* ---------------- specifications ---------------- *)

\* nothing stored and no resolver of the estimation variant called yet
PokerQuiet ==
  /\ pokerStore = [k \in StorageKeys |-> NothingStored]
  /\ pokerLast = NoPokerResult
  /\ pokerOps = 0

\* a controller that is constructed and not mounted yet
ControllerConstructed ==
  /\ ctx = Unmounted
  /\ initialLoading = TRUE
  /\ gate = NoGate
  /\ error = NoError
  /\ approving = FALSE
  /\ inFlightRef = FALSE
  /\ lastFetchMs = 0
  \* Date.now() is far more than MIN_GAP_MS after the epoch
  /\ now = MIN_GAP_MS
  /\ debounceTimer = NoTimer
  /\ calls = {}
  /\ approveCall = NoApprove
  /\ fetchCount = 0
  /\ ctlEvents = 0
  /\ notified = NotNotified

\* a direct panel that is constructed and not mounted yet
PanelQuiet == panel = PanelConstructed /\ loads = {}

\* no panel is mounted and every item awaits review
ControllerQuiet ==
  /\ ControllerConstructed
  /\ server = [i \in ViewIssues |-> REQUIRED_STATUS]
  /\ PanelQuiet

\* the approval engine at rest
EngineQuiet ==
  /\ workflow = WfStandard
  /\ status = REQUIRED_STATUS
  /\ approversField = ArrayValue(<<>>)
  /\ votesProp = AbsentProperty
  /\ approvalDate = NULL
  /\ approvalGivenBy = NULL
  /\ pc = [c \in Clients |-> "idle"]
  /\ loc = [c \in Clients |-> NoLoc]
  /\ last = NoResult
  /\ opsStarted = 0

Init ==
  /\ workflow \in Workflows
  /\ status \in {"Ready for Review", "In Progress"}
  /\ approversField \in {ArrayValue(<<>>), ArrayValue(<<"alice">>),
                        ArrayValue(<<"alice", "bob">>)}
  \* no ledger yet, or a vote bob cast earlier (the approver list is edited
  \* in the Provider, so bob need not be on it any more)
  /\ votesProp \in {AbsentProperty, Property(ArrayValue(<<"bob">>))}
  \* no annotation yet, or the item was approved by bob before
  /\ \/ approvalDate = NULL /\ approvalGivenBy = NULL
     \/ /\ votesProp # AbsentProperty
        /\ approvalDate = NOW_ISO
        /\ approvalGivenBy = "bob"
  /\ pc = [c \in Clients |-> "idle"]
  /\ loc = [c \in Clients |-> NoLoc]
  /\ last = NoResult
  /\ opsStarted = 0
  /\ PokerQuiet
  /\ ControllerQuiet

StartOp ==
  \E c \in Clients, payload \in Payloads :
    \/ \E a \in Actors : ApproveStart(c, a, payload)
    \/ \E a \in Actors : GetDataStart(c, a, payload)
    \/ ResetStart(c, payload)

StepOp ==
  \E c \in Clients :
    \/ ApGetTransitions(c)
    \/ ApPostTransition(c)
    \/ ApUpdateFields(c)
    \/ ApGetVotes(c)
    \/ ApPutVotes(c)
    \/ GdGetVotes(c)
    \/ RsGetVotes(c)
    \/ RsUpdateFields(c)
    \/ RsPutVotes(c)

\* requests of any number of sessions interleave at every awaited call
Next == StartOp \/ StepOp \/ ExternalTransition

Spec == Init /\ [][Next]_vars

\* one request at a time: a request starts, and the item is changed from
\* outside, only while no other request is running
NextSeq == (AllIdle /\ StartOp) \/ StepOp \/ (AllIdle /\ ExternalTransition)

SpecSeq == Init /\ [][NextSeq]_vars

\* the estimation variant on its own: its resolvers are called one after another
InitPoker == EngineQuiet /\ PokerQuiet /\ ControllerQuiet

NextPoker ==
  \/ \E payload \in KeyPayloads : GetPokerState(payload)
  \/ \E payload \in EstimatePayloads : EnterEstimate(payload)
  \/ \E payload \in ParticipantPayloads : SetPokerParticipants(payload)
  \/ \E payload \in KeyPayloads : RevealEstimates(payload)
  \/ \E payload \in KeyPayloads : ClearEstimates(payload)

SpecPoker == InitPoker /\ [][NextPoker]_vars

\* one controller, its clock, the invocations it has under way and the
\* Provider's other users; the resolvers are seen through their answers
InitCtl == EngineQuiet /\ PokerQuiet /\ ControllerQuiet

NextCtl ==
  \/ \E issue \in ViewIssues \cup {NoIssue} : RunEffects(issue)
  \/ Notify
  \/ TimerFires
  \/ Tick
  \/ \E f \in calls : ServeCall(f)
  \/ \E f \in calls : FetchSucceeds(f)
  \/ \E f \in calls, e \in FetchErrors : FetchFails(f, e)
  \/ ClickApprove
  \/ ApproveSucceeds
  \/ ApproveFails
  \/ \E issue \in ViewIssues : ItemMoved(issue)

SpecCtl == InitCtl /\ [][NextCtl]_vars

\* one direct panel, the requests of its load() executions and the Provider's
\* other users
InitPanel ==
  /\ EngineQuiet
  /\ PokerQuiet
  /\ ControllerConstructed
  /\ server = [i \in ViewIssues |-> REQUIRED_STATUS_NAME]
  /\ PanelQuiet

NextPanel ==
  \/ \E issueKey \in ViewIssues \cup {NoIssue} : PanelMount(issueKey)
  \/ PanelNotify
  \/ \E l \in loads : LoadGotUser(l)
  \/ \E l \in loads : LoadGotIssue(l)
  \/ \E l \in loads, votes \in {<<>>, << "alice" >>} : LoadGotVotes(l, votes)
  \/ \E l \in loads, e \in FetchJsonErrors : LoadFails(l, e)
  \/ PanelItemMoved

SpecPanel == InitPanel /\ [][NextPanel]_vars

TypeOK ==
  /\ status \in StatusNames
  /\ last.client \in Clients \cup {"none"}
  /\ opsStarted \in 0..MaxOps
  /\ \A c \in Clients : pc[c] \in
       {"idle", "ap_transitions", "ap_post", "ap_fields", "ap_votes",
        "ap_put", "gd_votes", "rs_votes", "rs_fields", "rs_put"}

(* ---------------- properties ---------------- *)

\* client c's resolver returns or throws in this step
Returns(c) == pc[c] # "idle" /\ pc'[c] = "idle"

\* r is the error assertOk throws for the call named label
IsFailure(r, label) == r.kind = "Failed" /\ r.label = label

ApproverSet == Range(ApproversOf(approversField))

\* C1: the projection returned by getIssueData has canApprove true exactly
\* when its status is REQUIRED_STATUS, its approver list is non-empty and the
\* session's actor is in the list; outside REQUIRED_STATUS it is false.
C1_CanActIff ==
  [][\A c \in Clients :
       (pc[c] = "gd_votes" /\ Returns(c) /\ last'.kind = "Projection") =>
         LET p == last'.proj
             a == loc[c].me
         IN /\ p.canApprove <=> (/\ p.statusName = REQUIRED_STATUS
                                 /\ p.approvers # <<>>
                                 /\ a \in Range(p.approvers))
            /\ p.statusName # REQUIRED_STATUS => ~p.canApprove]_vars

C1_Witness ==
  /\ last.kind = "Projection"
  /\ last.proj.canApprove
  /\ last.proj.totalApprovers = 2

\* client c invokes approveIssue in this step and the call gets past the
\* payload check and both fetches: it either throws a guard's error at once
\* or goes on to the transitions fetch
ApproveReachesGuards(c) ==
  /\ Idle(c)
  /\ opsStarted' = opsStarted + 1
  /\ \/ pc'[c] = "ap_transitions"
     \/ /\ pc' = pc
        /\ last'.client = c
        /\ last'.op = "approveIssue"
        /\ last'.kind \notin {"MissingRef", "Failed"}

\* C2: approveIssue checks item-resolves, then status, then membership: once
\* the issue fetch has answered, a status other than REQUIRED_STATUS always
\* ends the call with the invalid-state error that names the current and the
\* required status, whoever the actor and whatever the approver list.
C2_StatusGuardFirst ==
  [][\A c \in Clients :
       (ApproveReachesGuards(c) /\ status # REQUIRED_STATUS) =>
         /\ pc'[c] = "idle"
         /\ last'.kind = "InvalidState"
         /\ last'.current = status
         /\ last'.required = "Ready for Review"]_vars

C2_Witness ==
  /\ last.kind = "InvalidState"
  /\ last.current = "In Progress"
  /\ last.required = "Ready for Review"
  /\ last.actor \notin ApproverSet

\* C3: in REQUIRED_STATUS an actor who is not in the approver list (or an
\* empty list) ends approveIssue with the not-authorized error, and the call
\* ends there without changing the status.
C3_NotAuthorized ==
  [][\A c \in Clients :
       (/\ ApproveReachesGuards(c)
        /\ status = REQUIRED_STATUS
        /\ \E a \in Actors :
             /\ a \notin ApproverSet
             /\ a = (IF pc'[c] = "idle" THEN last'.actor ELSE loc'[c].me)) =>
         /\ pc'[c] = "idle"
         /\ last'.kind = "NotAuthorized"
         /\ status' = status]_vars

C3_Witness ==
  /\ last.kind = "NotAuthorized"
  /\ status = REQUIRED_STATUS
  /\ ApproverSet # {}
  /\ last.actor \notin ApproverSet

\* the destinations the Provider offers from the current status, by name
OfferedDestinations ==
  {workflow[i].to : i \in {j \in 1..Len(workflow) : workflow[j].from = status}}

OfferedNamedCount ==
  Cardinality({j \in 1..Len(workflow) :
                 workflow[j].from = status /\ workflow[j].to # ""})

C5_RoundTripLiteral ==
  [][\A c \in Clients :
       (/\ pc[c] = "gd_votes" /\ Returns(c)
        /\ last.kind = "Approved"
        /\ last'.kind = "Projection"
        /\ loc[c].me = last.actor) =>
         /\ last'.proj.statusName = TARGET_STATUS
         /\ last'.proj.hasVoted
         /\ Includes(Ledger', last.actor)]_vars

\* C5: with one request at a time, after approveIssue returned its
\* confirmation (which names the acting actor), the next getIssueData for the
\* same actor reports a status that equals TARGET_STATUS when letter case is
\* ignored, hasVoted true, and the ledger holds the actor.
C5_RoundTrip ==
  [][\A c \in Clients :
       (/\ pc[c] = "gd_votes" /\ Returns(c)
        /\ last.kind = "Approved"
        /\ last'.kind = "Projection"
        /\ loc[c].me = last.actor) =>
         /\ last.by = DisplayName(last.actor)
         /\ ToLowerCase(last'.proj.statusName) = ToLowerCase(TARGET_STATUS)
         /\ last'.proj.hasVoted
         /\ Includes(Ledger', last.actor)]_vars

\* the confirmation has been returned and the same actor's projection is
\* being built
C5_Witness ==
  \E c \in Clients :
    /\ pc[c] = "gd_votes"
    /\ last.kind = "Approved"
    /\ loc[c].me = last.actor
    /\ Includes(Ledger, last.actor)

C7_FirstVoteTransitions ==
  [][\A c \in Clients :
       (/\ Returns(c)
        /\ loc[c].op = "approveIssue"
        /\ last'.kind = "Approved") =>
         loc[c].transitioned]_vars

\* a confirmation with two approvers listed and one vote in the ledger
C7_Witness ==
  /\ last.kind = "Approved"
  /\ Len(ApproversOf(approversField)) = 2
  /\ Ledger = << last.actor >>
  /\ ToLowerCase(status) = ToLowerCase(TARGET_STATUS)

\* C8: in every reachable state, whatever the interleaving of approveIssue
\* and resetApprovalOnReady calls, no actor is in the ledger more than once.
C8_LedgerNoDuplicates == NoDuplicates(Ledger)

\* two sessions of the same actor are both about to write the ledger
C8_Witness ==
  /\ pc["c1"] = "ap_put"
  /\ pc["c2"] = "ap_put"
  /\ loc["c1"].me = loc["c2"].me

\* C9: with one request at a time, no step of an approveIssue call by an
\* actor who is already in the ledger changes the ledger: a second vote
\* leaves it as the first one did.
C9_RevoteIdempotent ==
  [][\A c \in Clients :
       (/\ loc[c].op = "approveIssue"
        /\ pc'[c] # pc[c]
        /\ Includes(Ledger, loc[c].me)) =>
         votesProp' = votesProp]_vars

\* alice's first call wrote the ledger; her second call has reached the
\* ledger read
C9_Witness ==
  \E c \in Clients :
    /\ pc[c] = "ap_votes"
    /\ loc[c].me = "alice"
    /\ Ledger = <<"alice">>
    /\ opsStarted = 2

\* C10 as stated: under any interleaving, every ledger write of approveIssue
\* leaves the ledger a superset of its previous value.
C10_MonotonicAnyInterleaving ==
  [][\A c \in Clients :
       (pc[c] = "ap_put" /\ pc'[c] = "idle" /\ votesProp' # votesProp) =>
         Range(Ledger) \subseteq Range(Ledger')]_vars

\* C10: every ledger write of approveIssue stores what the call read plus
\* its actor, so it leaves the ledger a superset of its previous value
\* whenever the stored ledger still is the one the call read; a write that
\* follows another session's write can drop that session's addition.
C10_MonotonicOnFreshRead ==
  [][\A c \in Clients :
       (pc[c] = "ap_put" /\ pc'[c] = "idle" /\ votesProp' # votesProp) =>
         /\ Range(Ledger') = Range(loc[c].read) \cup {loc[c].me}
         /\ Ledger = loc[c].read => Range(Ledger) \subseteq Range(Ledger')]_vars

\* a write has added a second actor to the ledger
C10_Witness ==
  /\ last.kind = "Approved"
  /\ Range(Ledger) = {"alice", "bob"}

\* C11: when an approveIssue call writes the ledger after another actor's
\* call has returned its confirmation, and nothing was written between this
\* call's ledger read and its write (the two read-modify-writes do not
\* overlap), the stored ledger holds both actors afterwards.
C11_BothVotersRecorded ==
  [][\A d \in Clients :
       (/\ pc[d] = "ap_put" /\ pc'[d] = "idle"
        /\ last'.kind = "Approved"
        /\ last.kind = "Approved"
        /\ last.client # d
        /\ last.actor # loc[d].me
        /\ Ledger = loc[d].read) =>
         {last.actor, loc[d].me} \subseteq Range(Ledger')]_vars

\* alice's call wrote the ledger, then bob's call read it and added bob
C11_Witness ==
  /\ last.kind = "Approved"
  /\ last.actor = "bob"
  /\ Ledger = <<"alice", "bob">>
  /\ approvalGivenBy = "bob"
  /\ opsStarted = 2

\* the id client c is about to POST is no longer offered, because another
\* actor's call, which passed the guards on the same status, has moved the
\* item out of the status c read
TransitionConflict(c) ==
  /\ pc[c] = "ap_post"
  /\ loc[c].statusName = REQUIRED_STATUS
  /\ status # REQUIRED_STATUS
  /\ \A i \in 1..Len(workflow) :
       workflow[i].from = status => workflow[i].id # loc[c].targetId
  /\ \E d \in Clients \ {c} :
       /\ loc[d].transitioned
       /\ loc[d].statusName = REQUIRED_STATUS
       /\ loc[d].me # loc[c].me
  /\ \A i \in 1..Len(workflow) :
       workflow[i].from = status => workflow[i].id # loc[c].targetId

\* C12: when a call passed the guards on a read that is stale by now and its
\* POST is rejected because the item has left REQUIRED_STATUS, the call ends
\* with a result of its own, not with the error a failed POST gives for any
\* upstream failure.
C12_SoftConflict ==
  [][\A c \in Clients :
       (TransitionConflict(c) /\ Returns(c)) =>
         ~IsFailure(last', "Transition")]_vars

\* C13: when the field update that follows the transition fails, the call
\* ends with the 'Issue update' error instead of the confirmation, and the
\* call leaves the status where the transition put it: nothing is undone.
C13_AnnotationFailureReported ==
  [][\A c \in Clients :
       (pc[c] = "ap_fields" /\ pc'[c] = "idle") =>
         /\ IsFailure(last', "Issue update")
         /\ last'.op = "approveIssue"
         /\ loc[c].transitioned
         /\ status' = status
         /\ approvalDate' = approvalDate
         /\ votesProp' = votesProp]_vars

\* the item is in the target status, the call has failed on the field update
\* and no annotation is stored
C13_Witness ==
  /\ IsFailure(last, "Issue update")
  /\ ToLowerCase(status) = ToLowerCase(TARGET_STATUS)
  /\ approvalDate = NULL
  /\ approvalGivenBy = NULL

\* client c's resetApprovalOnReady returns its result object in this step
ResetReturns(c) ==
  /\ \/ Returns(c)
     \/ Idle(c) /\ pc' = pc /\ opsStarted' = opsStarted + 1
  /\ last'.client = c
  /\ last'.kind = "Reset"

\* what the item held when the returning call started: while the call is
\* about to write the ledger the fields are those it read
NeededReset(c) ==
  /\ status = REQUIRED_STATUS
  /\ IF pc[c] = "rs_put"
     THEN loc[c].date # NULL \/ loc[c].by # NULL \/ loc[c].votes # <<>>
     ELSE approvalDate # NULL \/ approvalGivenBy # NULL \/ Ledger # <<>>

\* C14: with one request at a time, resetApprovalOnReady returns reset:true
\* exactly when the status is REQUIRED_STATUS and the approval date, the
\* approving actor or the ledger is non-empty; then the stored ledger is
\* empty and both fields are null when it returns. In every other case it
\* returns reset:false with a reason and has changed nothing.
C14_ResetExactlyWhenNeeded ==
  [][\A c \in Clients :
       ResetReturns(c) =>
         /\ last'.reset <=> NeededReset(c)
         /\ last'.reset =>
              /\ Ledger' = <<>>
              /\ approvalDate' = NULL
              /\ approvalGivenBy' = NULL
              /\ status' = REQUIRED_STATUS
         /\ ~last'.reset =>
              /\ last'.reason \in {"Status is", "Already clear"}
              /\ last'.reason = "Status is" <=> status # REQUIRED_STATUS
              /\ UNCHANGED << provider, votesProp >>]_vars

\* a reset has cleared a ledger that held a vote
C14_Witness ==
  /\ last.kind = "Reset"
  /\ last.reset
  /\ votesProp = Property(ArrayValue(<<>>))
  /\ approvalDate = NULL

\* client c's resetApprovalOnReady takes a step: it starts, or goes on
ResetSteps(c) ==
  \/ loc[c].op = "resetApprovalOnReady" /\ pc'[c] # pc[c]
  \/ /\ Idle(c)
     /\ opsStarted' = opsStarted + 1
     /\ \/ pc'[c] = "rs_votes"
        \/ pc' = pc /\ last'.client = c /\ last'.op = "resetApprovalOnReady"

\* C15: with one request at a time, a resetApprovalOnReady call that comes
\* right after one that returned (reset:true or reset:false) changes nothing
\* and, when it returns, returns reset:false; on an item that is clear both
\* calls return reset:false.
C15_ResetIdempotent ==
  [][\A c \in Clients :
       (last.kind = "Reset" /\ ResetSteps(c)) =>
         /\ UNCHANGED << provider, votesProp >>
         /\ ResetReturns(c) =>
              /\ ~last'.reset
              /\ ~last.reset => last'.reason = last.reason]_vars

\* a reset cleared the item and the call right after it found it clear
C15_Witness ==
  /\ last.kind = "Reset"
  /\ ~last.reset
  /\ last.reason = "Already clear"
  /\ votesProp = Property(ArrayValue(<<>>))
  /\ opsStarted = 2

\* C16: a projection that getIssueData returns while a resetApprovalOnReady
\* call is clearing the item shows either what the item held before the
\* reset (date, actor and vote count as the reset read them) or the cleared
\* item (both fields null, vote count 0), never a mix of the two.
C16_NoHalfClearedRead ==
  [][\A d \in Clients : \A c \in Clients \ {d} :
       (/\ pc[d] = "gd_votes" /\ Returns(d)
        /\ last'.kind = "Projection"
        /\ pc[c] \in {"rs_fields", "rs_put"}) =>
         LET p == last'.proj
         IN \/ /\ p.approvalDate = NULL
               /\ p.approvalGivenBy = NULL
               /\ p.approvedCount = 0
            \/ /\ p.approvalDate = loc[c].date
               /\ p.approvalGivenBy = loc[c].by
               /\ p.approvedCount = Len(loc[c].votes)]_vars

\* client c's getIssueData takes a step: it starts, or goes on
GetDataSteps(c) ==
  \/ loc[c].op = "getIssueData" /\ pc'[c] # pc[c]
  \/ /\ Idle(c)
     /\ opsStarted' = opsStarted + 1
     /\ \/ pc'[c] = "gd_votes"
        \/ pc' = pc /\ last'.client = c /\ last'.op = "getIssueData"

\* C17: no step of getIssueData, whether the call ends with a projection or
\* with an error, changes the workflow, the status, the approver list, the
\* approval date, the approving actor or the ledger.
C17_GetIssueDataReadOnly ==
  [][\A c \in Clients :
       GetDataSteps(c) =>
         /\ workflow' = workflow
         /\ status' = status
         /\ approversField' = approversField
         /\ approvalDate' = approvalDate
         /\ approvalGivenBy' = approvalGivenBy
         /\ votesProp' = votesProp]_vars

\* a projection has been returned for an item that has no stored ledger
C17_Witness ==
  /\ last.kind = "Projection"
  /\ last.proj.approvedCount = 0
  /\ last.proj.canApprove
  /\ votesProp = AbsentProperty

\* the property GET of a call ended in an error that an absent ledger did
\* not cause
UpstreamPropertyFailure(r) == IsFailure(r, "Property GET") /\ r.http # "404"

\* C18: an absent ledger is read as the empty ledger and never as an error:
\* getIssueData then returns a projection with approvedCount 0 and hasVoted
\* false, approveIssue goes on with the empty list, and the ledger it then
\* stores holds the actor alone.
C18_MissingLedgerIsEmpty ==
  [][\A c \in Clients :
       /\ (/\ pc[c] = "gd_votes" /\ pc'[c] # pc[c]
           /\ votesProp = AbsentProperty) =>
            \/ /\ last'.kind = "Projection"
               /\ last'.proj.approvedCount = 0
               /\ ~last'.proj.hasVoted
            \/ UpstreamPropertyFailure(last')
       /\ (/\ pc[c] = "ap_votes" /\ pc'[c] # pc[c]
           /\ votesProp = AbsentProperty) =>
            \/ /\ pc'[c] = "ap_put"
               /\ loc'[c].read = <<>>
               /\ loc'[c].votes = << loc[c].me >>
            \/ UpstreamPropertyFailure(last')
       /\ (/\ pc[c] = "ap_put" /\ pc'[c] # pc[c]
           /\ loc[c].read = <<>>
           /\ last'.kind = "Approved") =>
            Ledger' = << loc[c].me >>]_vars

\* the first call of the run was a vote by alice on an item without a stored
\* ledger
C18_Witness ==
  /\ last.kind = "Approved"
  /\ Ledger = <<"alice">>
  /\ opsStarted = 1
  /\ approvalGivenBy = "alice"

\* C19: in every projection getIssueData returns, approvedCount is the
\* number of ledger entries that are in the projection's approver list;
\* entries of actors who are not approvers are not counted.
C19_CountIsApproverScoped ==
  [][\A c \in Clients :
       (pc[c] = "gd_votes" /\ Returns(c) /\ last'.kind = "Projection") =>
         last'.proj.approvedCount =
           Cardinality(Range(Ledger) \cap Range(last'.proj.approvers))]_vars

\* client c's getIssueData returns a projection in REQUIRED_STATUS and the
\* last thing that happened to the item before the call was its re-opening
\* from the target status
ProjectionAfterReopen(c) ==
  /\ pc[c] = "gd_votes" /\ Returns(c)
  /\ last'.kind = "Projection"
  /\ last'.proj.statusName = REQUIRED_STATUS
  /\ last.kind = "external"
  /\ ToLowerCase(last.from) = ToLowerCase(TARGET_STATUS)

\* C20 as stated: a projection of an item that is back in REQUIRED_STATUS
\* after a re-open from the target status reports no vote cast before the
\* re-open: approvedCount is 0 and hasVoted is false.
C20_NoVotesFromEarlierCycle ==
  [][\A c \in Clients :
       ProjectionAfterReopen(c) =>
         /\ last'.proj.approvedCount = 0
         /\ ~last'.proj.hasVoted]_vars

\* C20: with one request at a time, a projection that follows a
\* resetApprovalOnReady call which cleared the item or found it clear reports
\* no votes: approvedCount 0, hasVoted false and no annotation. Without such
\* a call the projection of a re-opened item reports the ledger as it is
\* stored, votes of the earlier cycle included.
C20_VotesGoneAfterReset ==
  [][\A c \in Clients :
       /\ (/\ pc[c] = "gd_votes" /\ Returns(c)
           /\ last'.kind = "Projection"
           /\ last.kind = "Reset"
           /\ last.reset \/ last.reason = "Already clear") =>
            /\ last'.proj.approvedCount = 0
            /\ ~last'.proj.hasVoted
            /\ last'.proj.approvalDate = NULL
            /\ last'.proj.approvalGivenBy = NULL
       /\ ProjectionAfterReopen(c) =>
            /\ last'.proj.approvedCount = Len(Ledger)
            /\ last'.proj.hasVoted <=> Includes(Ledger, loc[c].me)]_vars

\* a reset cleared the item and the projection after it shows no votes
C20_Witness ==
  /\ last.kind = "Projection"
  /\ last.proj.statusName = REQUIRED_STATUS
  /\ last.proj.approvedCount = 0
  /\ last.proj.approvalDate = NULL
  /\ votesProp = Property(ArrayValue(<<>>))

(* ---------------- properties of the estimation variant ---------------- *)

\* a resolver of the estimation variant is called in this step
PokerCalled(op) == pokerOps' = pokerOps + 1 /\ pokerLast'.op = op

\* r is the refusal of a payload that lacks a field or carries no usable number
RejectedForPayload(r) ==
  r.kind = "error" /\ r.message \in {KEY_REQUIRED, FIELDS_REQUIRED, BAD_ESTIMATE}

\* the stored state of an item as getPokerState shows it
StoredState(issueKey) == normalizeState(pokerStore[getStorageKey(issueKey)])

\* the restriction stored for the item is empty or names the account
Permitted(issueKey, accountId) ==
  LET restriction == StoredState(issueKey).participants
  IN \/ restriction = <<>>
     \/ \E i \in 1..Len(restriction) : restriction[i].accountId = accountId

\* C21: an enterEstimate call whose payload is well formed (it is not refused
\* for a missing field or an unusable number) returns the new state exactly
\* when the participants stored for the item are empty or contain the
\* account; otherwise it throws the not-allowed error and nothing stored
\* changes.
C21_AcceptedIffPermitted ==
  [][(PokerCalled("enterEstimate") /\ ~RejectedForPayload(pokerLast')) =>
       LET r == pokerLast'
           permitted == Permitted(r.payload.issueKey, r.payload.accountId)
       IN /\ r.kind = "state" <=> permitted
          /\ ~permitted =>
               /\ r.kind = "error"
               /\ r.message = NOT_ALLOWED
               /\ pokerStore' = pokerStore]_vars

\* an account outside a non-empty restriction was refused, the estimate of a
\* member of that restriction stays stored
C21_Witness ==
  /\ pokerLast.op = "enterEstimate"
  /\ pokerLast.kind = "error"
  /\ pokerLast.message = NOT_ALLOWED
  /\ StoredState(pokerLast.payload.issueKey).participants # <<>>
  /\ DOMAIN StoredState(pokerLast.payload.issueKey).estimates # {}

\* C22: called one after another, enterEstimate, revealEstimates and
\* clearEstimates (and getPokerState) leave the participants stored for every
\* item as they were, and setPokerParticipants leaves the estimates and the
\* revealed flag stored for every item as they were.
C22_ParticipantsIndependentOfLedger ==
  [][pokerOps' # pokerOps =>
       \A k \in PokerIssues :
         LET before == StoredState(k)
             after == normalizeState(pokerStore'[getStorageKey(k)])
         IN /\ pokerLast'.op # "setPokerParticipants" =>
                 after.participants = before.participants
            /\ pokerLast'.op = "setPokerParticipants" =>
                 /\ after.estimates = before.estimates
                 /\ after.revealed = before.revealed]_vars

\* estimates were cleared for an item whose restriction is not empty
C22_Witness ==
  /\ pokerLast.op = "clearEstimates"
  /\ pokerLast.kind = "state"
  /\ StoredState(pokerLast.payload.issueKey).participants # <<>>

(* ---------------- properties of the lean controller ---------------- *)

\* a getIssueData invocation is issued in this step
FetchIssued == fetchCount' = fetchCount + 1

\* the effects run for an item in this step: mount, or a change of identity
EffectsRunFor(issue) == ctx # issue /\ ctx' = issue

\* approveIssue answers in this step and the vote is cast
VoteCast ==
  /\ approveCall.phase = "invoked"
  /\ approveCall'.phase # "invoked"
  /\ server' # server

\* the timer of onChanged fires in this step
TimerFired == debounceTimer # NoTimer /\ debounceTimer' = NoTimer /\ ctx' = ctx

\* C23: at most one getIssueData invocation of a controller is in progress at
\* any time, and no step issues one while another is in progress: the request
\* that finds a fetch in flight is dropped.
C23_SingleFlight ==
  /\ [](Cardinality(calls) <= 1)
  /\ [][calls # {} => ~FetchIssued]_vars

\* the item changed while the fetch for the previous item was in flight: the
\* request of the new item was dropped and the only fetch in progress is the
\* old one
C23_Witness ==
  /\ ctx \in ViewIssues
  /\ Cardinality(calls) = 1
  /\ \A f \in calls : f.issue # ctx /\ f.isInitial

\* C24: every time the effects run for an item (mount, change of identity) a
\* getIssueData invocation for that item is issued, whether or not another
\* fetch is in flight and however recent the previous fetch is.
C24_InitialAlwaysProceeds ==
  [][\A issue \in ViewIssues :
       EffectsRunFor(issue) =>
         /\ FetchIssued
         /\ \E f \in calls' : f.issue = issue /\ f.isInitial /\ f.n = fetchCount']_vars

\* C25: the refresh requested by onApprove after a vote is executed even when
\* the previous fetch completed less than MIN_GAP_MS before (no fetch being
\* in flight).
C25_UserActionBypassesThrottle ==
  [][(VoteCast /\ ~inFlightRef) => FetchIssued]_vars

\* C26: a vote that was cast is followed by a getIssueData invocation for the
\* voted item that is issued after approveIssue answered and that onApprove
\* awaits.
C26_VoteFollowedByFetch ==
  [][VoteCast =>
       \E f \in calls' :
         /\ f \notin calls
         /\ f.issue = approveCall.issue
         /\ f.awaited]_vars

\* C27: the notifications of one burst (each less than EVENT_DEBOUNCE_MS after
\* the one before) make the timer issue at most one getIssueData invocation,
\* and the timer issues it no sooner than EVENT_DEBOUNCE_MS after the last
\* notification.
C27_BurstCoalesced ==
  /\ [](notified.issued <= 1)
  /\ [][(TimerFired /\ FetchIssued) =>
          now >= notified.at + EVENT_DEBOUNCE_MS]_vars

\* three notifications in one burst, one invocation issued by the timer
C27_Witness == notified.size = 3 /\ notified.issued = 1

\* C28: the timer never issues a getIssueData invocation on behalf of a
\* notification that arrived while a fetch was in flight.
C28_NotificationInFlightDropped ==
  [][(TimerFired /\ FetchIssued) => ~notified.inFlight]_vars

\* a getIssueData invocation is rejected with the throttling signal in this step
RateLimited ==
  /\ inFlightRef
  /\ ~inFlightRef'
  /\ error' = RATE_LIMITED
  /\ calls' # calls

\* C30: the step in which a fetch fails with the throttling signal schedules a
\* retry: a timer is set, or the retry is issued.
C30_RetryScheduled ==
  [][RateLimited => (debounceTimer' # debounceTimer \/ FetchIssued)]_vars

(* ---------------- properties of the direct panel ---------------- *)

\* a load() fails in this step: its GET /myself or GET /issue throws
LoadFailed ==
  /\ Cardinality(loads') < Cardinality(loads)
  /\ \E l \in loads \ loads' : l.at \in {"myself", "issue"}

\* C29: when a fetch fails on a panel that holds the data of an earlier fetch,
\* the error is recorded, the data are kept, and the panel goes on rendering
\* the view (with the error beside it).
C29_FailureKeepsViewVisible ==
  [][(LoadFailed /\ panel.issue # NULL) =>
       /\ panel'.error # NoError
       /\ panel'.issue = panel.issue
       /\ Rendered(panel') = "view"]_vars

\* the stored state of an item after this step
StoredStateAfter(issueKey) == normalizeState(pokerStore'[getStorageKey(issueKey)])

\* C39: the revealed flag stored for an item turns true only in a
\* revealEstimates call; after an enterEstimate or clearEstimates call that
\* returns, the flag stored for its item is false, and after such a
\* clearEstimates call the item has no estimates.
C39_RevealedOnlyByReveal ==
  [][pokerOps' # pokerOps =>
       LET r == pokerLast'
       IN /\ \A k \in PokerIssues :
               (StoredStateAfter(k).revealed /\ ~StoredState(k).revealed) =>
                 r.op = "revealEstimates"
          /\ (r.kind = "state" /\ r.op \in {"enterEstimate", "clearEstimates"}) =>
               ~StoredStateAfter(r.payload.issueKey).revealed
          /\ (r.kind = "state" /\ r.op = "clearEstimates") =>
               StoredStateAfter(r.payload.issueKey).estimates = NoEstimates]_vars

\* an estimate was accepted for an item that already held another one, two
\* calls after the first
C39_Witness ==
  /\ pokerLast.op = "enterEstimate"
  /\ pokerLast.kind = "state"
  /\ pokerOps = 3
  /\ Cardinality(DOMAIN StoredState(pokerLast.payload.issueKey).estimates) = 2
  /\ ~StoredState(pokerLast.payload.issueKey).revealed

\* the accounts that hold an estimate in state although its non-empty
\* restriction does not name them
Outsiders(state) ==
  IF state.participants = <<>> THEN {}
  ELSE {a \in DOMAIN state.estimates :
          ~\E i \in 1..Len(state.participants) : state.participants[i].accountId = a}

\* C40 as stated: in every stored state with a non-empty restriction every
\* account that holds an estimate is a member of the restriction.
C40_HoldersAreMembers ==
  \A k \in PokerIssues : Outsiders(StoredState(k)) = {}

\* C40: no call other than setPokerParticipants makes an account hold an
\* estimate outside the item's non-empty restriction: enterEstimate,
\* revealEstimates and clearEstimates never add such an account.
C40_OnlyConfigurationStrandsHolders ==
  [][(pokerOps' # pokerOps /\ pokerLast'.op # "setPokerParticipants") =>
       \A k \in PokerIssues :
         Outsiders(StoredStateAfter(k)) \subseteq Outsiders(StoredState(k))]_vars

\* an enterEstimate call was made on an item whose restriction, set after an
\* estimate was stored, leaves the holder of that estimate outside
C40_Witness ==
  /\ pokerLast.op = "enterEstimate"
  /\ Outsiders(StoredState(ISSUE_KEY)) # {}

(* ---------------- properties of calls that end early ---------------- *)

\* client c's approveIssue throws one of the errors of its guards or of its
\* search for the transition in this step
ApproveRefused(c) ==
  /\ \/ Returns(c)
     \/ Idle(c) /\ pc' = pc /\ opsStarted' = opsStarted + 1
  /\ last'.client = c
  /\ last'.op = "approveIssue"
  /\ last'.kind \in {"MissingRef", "InvalidState", "NotAuthorized", "NoTransition"}

\* C33: an approveIssue that fails a guard (missing reference, wrong status,
\* not an approver) or finds no transition to TARGET_STATUS has written
\* nothing: the step that throws and the steps of the call before it leave the
\* status, the annotation fields and the ledger as they are, and the call has
\* executed no transition.
C33_RefusedChangesNothing ==
  [][\A c \in Clients :
       /\ ApproveRefused(c) =>
            /\ provider' = provider
            /\ votesProp' = votesProp
            /\ ~loc[c].transitioned
            /\ pc[c] \in {"idle", "ap_transitions"}
       /\ (pc'[c] = "ap_transitions" /\ pc[c] # "ap_transitions") =>
            /\ Idle(c)
            /\ provider' = provider
            /\ votesProp' = votesProp]_vars

\* the search found no transition although the actor is an approver of an
\* item in REQUIRED_STATUS whose ledger is still empty
C33_Witness ==
  /\ last.kind = "NoTransition"
  /\ last.op = "approveIssue"
  /\ status = REQUIRED_STATUS
  /\ last.actor \in ApproverSet
  /\ Ledger = <<>>
  /\ approvalDate = NULL

\* client c's approveIssue ends in this step, after its transition, with the
\* confirmation or with the error of the field update or of the ledger read
EndsAfterTransition(c) ==
  /\ Returns(c)
  /\ loc[c].op = "approveIssue"
  /\ loc[c].transitioned
  /\ \/ last'.kind = "Approved"
     \/ IsFailure(last', "Issue update")
     \/ IsFailure(last', "Property GET")

\* C34: whenever approveIssue has executed the transition for an actor, the
\* actor is in the ledger when the call ends, with the confirmation or with
\* the error of a later step (field update or ledger read).
C34_TransitionerInLedger ==
  [][\A c \in Clients :
       EndsAfterTransition(c) =>
         Includes(GetIssuePropertyOrEmpty(votesProp'), loc[c].me)]_vars

(* ---------------- properties of the reset under interleaving ---------------- *)

\* client c's resetApprovalOnReady completes one of its two clearing writes in
\* this step: the field update with nulls, or the PUT of the empty ledger
ClearingWrite(c) ==
  \/ pc[c] = "rs_fields" /\ pc'[c] = "rs_put"
  \/ pc[c] = "rs_put" /\ Returns(c) /\ last'.kind = "Reset"

\* C35: whatever approveIssue calls and outside status changes interleave
\* with it, resetApprovalOnReady clears the annotation fields or the ledger
\* only while the item is in REQUIRED_STATUS at the moment of that write; a
\* call that reads the item in another status ends at once and writes
\* nothing.
C35_ClearsOnlyInRequiredStatus ==
  [][\A c \in Clients :
       /\ ClearingWrite(c) => status = REQUIRED_STATUS
       /\ (Idle(c) /\ ResetSteps(c) /\ status # REQUIRED_STATUS) =>
            /\ pc'[c] = "idle"
            /\ UNCHANGED << provider, votesProp >>]_vars

(* ---------------- the read model and the mutation ---------------- *)

\* the actor of the approveIssue call that client c starts in this step
StartingActor(c) == IF pc'[c] = "idle" THEN last'.actor ELSE loc'[c].me

\* the last call returned a projection that shows the status and the approver
\* list the item has now
ProjectionIsCurrent ==
  /\ last.kind = "Projection"
  /\ last.proj.statusName = status
  /\ last.proj.approvers = ApproversOf(approversField)

\* C36: when getIssueData has returned a projection and the same actor calls
\* approveIssue on the same status and approver list, the call passes the
\* status and membership guards exactly when the projection's canApprove is
\* true; it can then fail only for a missing transition or an upstream error.
C36_ProjectionAgreesWithGuards ==
  [][\A c \in Clients :
       (/\ ProjectionIsCurrent
        /\ ApproveReachesGuards(c)
        /\ StartingActor(c) = last.actor) =>
         /\ last.proj.canApprove <=> pc'[c] = "ap_transitions"
         /\ ~last.proj.canApprove =>
              last'.kind \in {"InvalidState", "NotAuthorized"}]_vars

\* the projection said canApprove and the same actor's approveIssue has passed
\* the guards
C36_Witness ==
  \E c \in Clients :
    /\ pc[c] = "ap_transitions"
    /\ last.kind = "Projection"
    /\ last.proj.canApprove
    /\ last.actor = loc[c].me
    /\ last.proj.totalApprovers = 2

(* ---------------- properties of the throttle ---------------- *)

\* C31: the request of a notification's timer that is evaluated less than
\* MIN_GAP_MS after lastFetchMs invokes nothing, so that a fetch the timer
\* issues starts at least MIN_GAP_MS after the start of the fetch the timer
\* issued before it, when that one resolved.
C31_ThrottleDrops ==
  [][/\ (TimerFired /\ now - lastFetchMs < MIN_GAP_MS) => ~FetchIssued
     /\ (TimerFired /\ FetchIssued /\ notified.fetchOk) =>
          now - notified.fetchAt >= MIN_GAP_MS]_vars

\* one panel, one fetch that resolved before the only notification arrived,
\* and the timer of that notification has fired inside the gap without
\* issuing a fetch
C31_Witness ==
  /\ ctlEvents = 2
  /\ fetchCount = 1
  /\ calls = {}
  /\ gate.present
  /\ notified.size = 1
  /\ notified.issued = 0
  /\ lastFetchMs <= notified.at
  /\ debounceTimer = NoTimer

\* a getIssueData invocation settles in this step, resolved or rejected
FetchSettled == \E f \in calls : f \notin calls'

\* C32: when a fetch settles, resolved or rejected, inFlightRef is false and
\* lastFetchMs is the time of the completion, so that the throttle applies to
\* the request that follows a failed fetch as well.
C32_StampedOnEveryCompletion ==
  [][FetchSettled => (~inFlightRef' /\ lastFetchMs' = now)]_vars

(* ---------------- properties of the controller at rest ---------------- *)

\* C37: on a panel that is opened on an item, initialLoading is false
\* whenever no fetch is in progress: the loading state of a mount or of a
\* change of identity ends once the fetch in progress has completed.
C37_InitialLoadingEnds ==
  (ctx \in ViewIssues /\ calls = {}) => ~initialLoading

\* the last event from outside was a notification that found no onApprove
\* running, its timer has fired, nothing is in progress and the last fetch
\* did not fail
QuietAfterNotification ==
  /\ ctx \in ViewIssues
  /\ notified.at # NoTimer
  /\ notified.events = ctlEvents
  /\ ~notified.approving
  /\ debounceTimer = NoTimer
  /\ calls = {}
  /\ approveCall = NoApprove
  /\ error = NoError

\* the cached projection is the item's projection on the server
CacheFresh ==
  /\ gate.present
  /\ gate.issue = ctx
  /\ gate.statusName = server[ctx]

\* C38 as stated: once a notification has been delivered and nothing follows
\* it (no notification, no user action, no failed fetch), the controller comes
\* to rest with a cache that equals the server's state.
C38_FreshAfterQuiescence == QuietAfterNotification => CacheFresh

\* C38: the same, for a notification whose timer found no fetch in flight and
\* the previous fetch at least MIN_GAP_MS old, so that it issued a fetch: that
\* fetch resolved.
C38_FreshWhenTimerFetched ==
  (/\ QuietAfterNotification
   /\ notified.issued = 1
   /\ notified.fetchOk) => CacheFresh

\* the item was approved by somebody else after the panel had loaded it, the
\* notification's timer issued a fetch and the cache shows the new status
C38_Witness ==
  /\ QuietAfterNotification
  /\ notified.issued = 1
  /\ notified.fetchOk
  /\ CacheFresh
  /\ gate.statusName = TARGET_STATUS
  /\ fetchCount = 2

====
